---- MODULE Spec2Model ----
(***************************************************************************)
(* Model of src/udiskslinuxprovider.c: the UDisksLinuxProvider keeps the   *)
(* hash table sysfs_to_block (sysfs path -> UDisksLinuxBlock) in step with *)
(* the objects exported on the daemon's GDBusObjectManager, driven by the  *)
(* initial enumeration of the "block" subsystem and by the GUdevClient     *)
(* "uevent" signal.                                                        *)
(*                                                                         *)
(* Collaborators that live outside the file (GUdevClient, GHashTable,      *)
(* GDBusObjectManagerServer, UDisksLinuxBlock) are modelled by the calls   *)
(* the provider makes on them:                                             *)
(*   - a block object is a handle 1..Len(blocks); blocks[h] is the sysfs   *)
(*     path of the device it was constructed from, and its D-Bus object    *)
(*     path is derived one-to-one from that device;                        *)
(*   - the object manager is a table from object path to exported handle;  *)
(*   - the GUdevClient queues uevents and emits the "uevent" signal only   *)
(*     from the main loop, i.e. never while constructed() is on the stack. *)
(*                                                                         *)
(* Every handler invocation is one atomic step (the main loop is single    *)
(* threaded); the order of the calls made inside one invocation is kept in *)
(* the variable calls.                                                     *)
(***************************************************************************)
EXTENDS Integers, Sequences, FiniteSets, TLC

\* ------------------------------------------------------------------ bounds
NumPaths   == 3   \* number of distinct sysfs paths (devices)
MaxLive    == 3   \* live uevents the kernel emits in one behaviour
MaxPending == 1   \* uevents queued in the GUdevClient at one time

\* --------------------------------------------------------------- constants
NULL       == 0
NoAction   == "(null)"          \* action == NULL, as g_print would show it
Paths      == 1..NumPaths
Actions    == {"add", "change", "remove", "move", NoAction}
Handles    == 1..(NumPaths + MaxLive)
Workers    == {1, 2}
DaemonArgs == {"daemon", "null", "other"}   \* a UDisksDaemon, NULL, another object

VARIABLES
  phase,           \* "unconstructed" | "invalid" | "enumerating" | "running"
                   \* | "finalized"
  daemon,          \* the argument udisks_linux_provider_new was called with
  devices,         \* rest of the GList returned by query_by_subsystem
  pending,         \* uevents queued in the GUdevClient, oldest first
  emitted,         \* number of live uevents emitted so far
  sysfs_to_block,  \* provider->sysfs_to_block: path -> handle, NULL if absent
  exported,        \* object manager: object path -> exported handle or NULL
  blocks,          \* blocks[h] = sysfs path block h was constructed from
  calls,           \* calls made by the last handle_uevent, in order
  last,            \* the notification handled last
  nhandled,        \* number of handle_uevent invocations so far
  since,           \* per path: Adds / constructs / exports since last Remove
  pat,             \* per path: progress through Add, Remove, Add
  retiredObj,      \* per path: handle looked up by the latest Remove
  retired,         \* handles dropped from the map by a Remove
  rejected,        \* paths whose latest Remove had its unexport rejected
  enumerated,      \* the list query_by_subsystem returned
  seedCalls,       \* calls made while seeding, in order
  attached,        \* block devices physically attached to the machine
  faulty,          \* the environment has broken an assumption of the handler
  feedOk,          \* FALSE once query_by_subsystem has failed
  wpc,             \* per worker: position inside handle_uevent
  wev,             \* per worker: the notification it is handling
  wblk,            \* per worker: the local variable block
  overlap          \* two workers have been inside handle_uevent together

world == <<attached, faulty, feedOk>>
workers == <<wpc, wev, wblk, overlap>>

vars == <<phase, daemon, devices, pending, emitted, sysfs_to_block, exported,
          blocks, calls, last, nhandled, since, pat, retiredObj, retired, rejected,
          enumerated, seedCalls, world, workers>>

\* ------------------------------------------------------------ collaborators
Call(op, path, obj, action) ==
  [op |-> op, path |-> path, obj |-> obj, action |-> action]

Keys(map) == {p \in Paths : map[p] # NULL}


\* mutant: the lookup never finds the entry
LookupMisses(map, path) == NULL

\* g_hash_table_lookup
Lookup(map, path) == map[path]

\* g_hash_table_remove: TRUE iff the key was found
HashRemoveFound(map, path) == map[path] # NULL

\* mutant: the entry stays in the table
HashRemoveKeeps(map, path) == map

HashRemove(map, path) == [map EXCEPT ![path] = NULL]


\* mutant: the insert is lost
HashInsertDrops(map, path, block) == map

\* mutant: the insert replaces the table's contents
HashInsertAlone(map, path, block) ==
  [p \in Paths |-> IF p = path THEN block ELSE NULL]

\* g_hash_table_insert
HashInsert(map, path, block) == [map EXCEPT ![path] = block]

\* g_dbus_object_get_object_path of a block
ObjectPath(blks, block) == blks[block]


\* mutant: exporting one object retracts the others
ExportClobbers(reg, blks, block) ==
  [p \in Paths |-> IF p = ObjectPath(blks, block) THEN block ELSE NULL]

\* g_dbus_object_manager_export / _unexport
Export(reg, blks, block) == [reg EXCEPT ![ObjectPath(blks, block)] = block]

\* g_dbus_object_manager_unexport returns FALSE when nothing is exported at
\* the path; handle_uevent does not look at the result
UnexportFound(reg, objpath) == reg[objpath] # NULL

\* mutant: the object stays exported
UnexportNoop(reg, objpath) == reg

Unexport(reg, objpath) == [reg EXCEPT ![objpath] = NULL]

\* udisks_linux_block_new: a fresh instance for the device
BlockNew(blks, path) == Append(blks, path)


\* mutant: no action is recognised as "remove"
IsRemoveNever(action) == FALSE

\* mutant: only "add" and "change" take the else branch
IsRemoveLoose(action) == action \notin {"add", "change"}

\* g_strcmp0 (action, "remove") == 0; a NULL action compares unequal
IsRemove(action) == action = "remove"


\* mutant: a rejected unexport ends the handler, the entry stays
HandleRemoveStopsOnReject(s, path) ==
  LET block == Lookup(s.map, path) IN
  IF block # NULL
    THEN IF UnexportFound(s.reg, ObjectPath(s.blocks, block))
           THEN [map    |-> HashRemove(s.map, path),
                 reg    |-> Unexport(s.reg, ObjectPath(s.blocks, block)),
                 blocks |-> s.blocks,
                 calls  |-> << Call("unexport", ObjectPath(s.blocks, block), block, "-"),
                               Call("remove", path, block, "-") >>]
           ELSE [map |-> s.map, reg |-> s.reg, blocks |-> s.blocks,
                 calls |-> << Call("unexport", ObjectPath(s.blocks, block), block, "-"),
                              Call("warn", path, block, "-") >>]
    ELSE [map |-> s.map, reg |-> s.reg, blocks |-> s.blocks, calls |-> << >>]

\* mutant: no check of the lookup's result
HandleRemoveUnchecked(s, path) ==
  LET block == Lookup(s.map, path) IN
  [map    |-> HashRemove(s.map, path),
   reg    |-> Unexport(s.reg, path),
   blocks |-> s.blocks,
   calls  |-> << Call("unexport", path, block, "-"),
                 Call("remove", path, block, "-") >>
              \o (IF HashRemoveFound(s.map, path) THEN << >>
                  ELSE << Call("warn", path, block, "-") >>)]

\* ------------------------------------------------------------ handle_uevent
\* the "remove" branch (lines 187-193)
HandleRemove(s, path) ==
  LET block == Lookup(s.map, path) IN
  IF block # NULL
    THEN [map    |-> HashRemove(s.map, path),
          reg    |-> Unexport(s.reg, ObjectPath(s.blocks, block)),
          blocks |-> s.blocks,
          calls  |-> << Call("unexport", ObjectPath(s.blocks, block), block, "-"),
                        Call("remove", path, block, "-") >>
                     \o (IF HashRemoveFound(s.map, path) THEN << >>
                         ELSE << Call("warn", path, block, "-") >>)]
    ELSE [map |-> s.map, reg |-> s.reg, blocks |-> s.blocks, calls |-> << >>]


\* mutant: the object inserted is not the one exported
HandleOtherTwoInstances(s, action, path) ==
  LET block == Lookup(s.map, path) IN
  IF block # NULL
    THEN [map |-> s.map, reg |-> s.reg, blocks |-> s.blocks,
          calls |-> << Call("uevent", path, block, action) >>]
    ELSE LET blks == BlockNew(BlockNew(s.blocks, path), path)
             new  == Len(blks)
         IN [map    |-> HashInsert(s.map, path, new),
             reg    |-> Export(s.reg, blks, new - 1),
             blocks |-> blks,
             calls  |-> << Call("new", path, new - 1, "-"),
                           Call("export", ObjectPath(blks, new - 1), new - 1, "-"),
                           Call("new", path, new, "-"),
                           Call("insert", path, new, "-") >>]

\* mutant: the update path exports the object again
HandleOtherReexports(s, action, path) ==
  LET block == Lookup(s.map, path) IN
  IF block # NULL
    THEN [map |-> s.map, reg |-> Export(s.reg, s.blocks, block),
          blocks |-> s.blocks,
          calls |-> << Call("uevent", path, block, action),
                       Call("export", ObjectPath(s.blocks, block), block, "-") >>]
    ELSE LET blks == BlockNew(s.blocks, path)
             new  == Len(blks)
         IN [map    |-> HashInsert(s.map, path, new),
             reg    |-> Export(s.reg, blks, new),
             blocks |-> blks,
             calls  |-> << Call("new", path, new, "-"),
                           Call("export", ObjectPath(blks, new), new, "-"),
                           Call("insert", path, new, "-") >>]

\* the else branch (lines 197-208)
HandleOther(s, action, path) ==
  LET block == Lookup(s.map, path) IN
  IF block # NULL
    THEN [map |-> s.map, reg |-> s.reg, blocks |-> s.blocks,
          calls |-> << Call("uevent", path, block, action) >>]
    ELSE LET blks == BlockNew(s.blocks, path)
             new  == Len(blks)
         IN [map    |-> HashInsert(s.map, path, new),
             reg    |-> Export(s.reg, blks, new),
             blocks |-> blks,
             calls  |-> << Call("new", path, new, "-"),
                           Call("export", ObjectPath(blks, new), new, "-"),
                           Call("insert", path, new, "-") >>]

\* mutant: a "remove" only retracts the object, the entry stays
HandleUeventKeepsEntry(s, action, path) ==
  IF IsRemove(action)
    THEN [HandleRemove(s, path) EXCEPT !.map = s.map]
    ELSE HandleOther(s, action, path)

HandleUevent(s, action, path) ==
  IF IsRemove(action) THEN HandleRemove(s, path)
                      ELSE HandleOther(s, action, path)

\* the loop of constructed() (lines 117-118) as a fold over the enumeration
RECURSIVE Seed(_, _)
Seed(s, devs) ==
  IF devs = << >>
    THEN s
    ELSE LET r == HandleUevent(s, "add", Head(devs))
         IN Seed([r EXCEPT !.calls = s.calls \o r.calls], Tail(devs))

\* ----------------------------------------------------------------- history
CountOp(cs, op) == Cardinality({i \in 1..Len(cs) : cs[i].op = op})

Sat2(n) == IF n > 2 THEN 2 ELSE n

SinceAfter(old, action, cs) ==
  IF action = "remove"
    THEN [adds |-> 0, news |-> 0, exports |-> 0]
    ELSE [adds    |-> Sat2(old.adds + (IF action = "add" THEN 1 ELSE 0)),
          news    |-> old.news + CountOp(cs, "new"),
          exports |-> old.exports + CountOp(cs, "export")]

PatAfter(old, action) ==
  CASE action = "add"    -> (IF old = 2 THEN 3 ELSE 1)
    [] action = "remove" -> (IF old \in {1, 3} THEN 2 ELSE 0)
    [] OTHER             -> 0

\* one invocation of udisks_linux_provider_handle_uevent
Handle(action, path, live) ==
  LET r == HandleUevent([map |-> sysfs_to_block, reg |-> exported,
                         blocks |-> blocks, calls |-> << >>], action, path)
      old == sysfs_to_block[path]
  IN /\ sysfs_to_block' = r.map
     /\ exported' = r.reg
     /\ blocks' = r.blocks
     /\ calls' = r.calls
     /\ last' = [action |-> action, path |-> path, live |-> live]
     /\ nhandled' = nhandled + 1
     /\ since' = [since EXCEPT ![path] = SinceAfter(@, action, r.calls)]
     /\ pat' = [pat EXCEPT ![path] = PatAfter(@, action)]
     /\ retiredObj' = IF action = "remove"
                        THEN [retiredObj EXCEPT ![path] = old]
                        ELSE retiredObj
     /\ retired' = IF action = "remove" /\ old # NULL
                     THEN retired \cup {old} ELSE retired
     /\ rejected' = IF action = "remove"
                      THEN (IF old # NULL /\ ~UnexportFound(exported, ObjectPath(blocks, old))
                              THEN rejected \cup {path}
                              ELSE rejected \ {path})
                      ELSE rejected
     /\ seedCalls' = IF live THEN seedCalls ELSE seedCalls \o r.calls

\* ------------------------------------------------------------------ actions
\* g_udev_client_query_by_subsystem: the present devices, each once
QueryBySubsystem ==
  {d \in UNION {[1..n -> Paths] : n \in 0..NumPaths} :
     \A i, j \in DOMAIN d : i # j => d[i] # d[j]}


\* mutant: the signal is emitted as soon as the client exists
DispatchesAnytime == phase \in {"enumerating", "running"}

\* the "uevent" signal is emitted from the main loop only
MainLoopDispatches == phase = "running"

\* the GUdevClient of line 104 exists
ClientExists == phase \in {"enumerating", "running"}

NoNotification == [action |-> NoAction, path |-> NULL]

\* the provider before udisks_linux_provider_new, whatever is plugged in
InitProvider ==
  /\ phase = "unconstructed"
  /\ daemon = "unset"
  /\ faulty = FALSE
  /\ feedOk = TRUE
  /\ wpc = [w \in Workers |-> "idle"]
  /\ wev = [w \in Workers |-> NoNotification]
  /\ wblk = [w \in Workers |-> NULL]
  /\ overlap = FALSE
  /\ devices = << >>
  /\ pending = << >>
  /\ emitted = 0
  /\ sysfs_to_block = [p \in Paths |-> NULL]
  /\ exported = [p \in Paths |-> NULL]
  /\ blocks = << >>
  /\ calls = << >>
  /\ last = [action |-> NoAction, path |-> NULL, live |-> FALSE]
  /\ nhandled = 0
  /\ since = [p \in Paths |-> [adds |-> 0, news |-> 0, exports |-> 0]]
  /\ pat = [p \in Paths |-> 0]
  /\ retiredObj = [p \in Paths |-> NULL]
  /\ retired = {}
  /\ rejected = {}
  /\ enumerated = << >>
  /\ seedCalls = << >>

Init ==
  /\ InitProvider
  /\ attached = {}

\* constructed(), lines 104-116: client, signal connection, map, query
Constructed ==
  /\ phase = "unconstructed"
  /\ phase' = "enumerating"
  /\ \E d \in QueryBySubsystem : devices' = d /\ enumerated' = d
  /\ UNCHANGED <<pending, emitted, sysfs_to_block, exported, blocks, calls,
                 last, nhandled, since, pat, retiredObj, retired, rejected, seedCalls,
                 world, workers>>

\* mutant: the argument is not checked
UdisksIsDaemonAlways(d) == TRUE

\* UDISKS_IS_DAEMON (daemon), line 148
UdisksIsDaemon(d) == d = "daemon"

\* udisks_linux_provider_new, lines 145-152: g_return_val_if_fail, then
\* g_object_new, which runs constructed()
ProviderNew(d) ==
  /\ phase = "unconstructed"
  /\ daemon' = d
  /\ IF UdisksIsDaemon(d)
       THEN Constructed
       ELSE /\ phase' = "invalid"
            /\ UNCHANGED <<devices, enumerated, pending, emitted,
                           sysfs_to_block, exported, blocks, calls, last,
                           nhandled, since, pat, retiredObj, retired, rejected,
                           seedCalls, world, workers>>

\* constructed(), lines 117-118: one turn of the loop over the enumeration
EnumStep ==
  /\ phase = "enumerating"
  /\ devices # << >>
  /\ Handle("add", Head(devices), FALSE)
  /\ devices' = Tail(devices)
  /\ UNCHANGED <<phase, daemon, pending, emitted, enumerated, world, workers>>

\* constructed(), lines 119-123: the loop is over, control returns
ConstructedReturn ==
  /\ phase = "enumerating"
  /\ devices = << >>
  /\ phase' = "running"
  /\ UNCHANGED <<daemon, devices, pending, emitted, sysfs_to_block, exported,
                 blocks, calls, last, nhandled, since, pat, retiredObj,
                 retired, rejected, enumerated, seedCalls, world, workers>>

\* the kernel reports a device event; the client (alive since line 104)
\* queues it
KernelUevent ==
  /\ ClientExists
  /\ emitted < MaxLive
  /\ Len(pending) < MaxPending
  /\ \E a \in Actions, p \in Paths :
       pending' = Append(pending, [action |-> a, path |-> p])
  /\ emitted' = emitted + 1
  /\ UNCHANGED <<phase, daemon, devices, sysfs_to_block, exported, blocks,
                 calls, last, nhandled, since, pat, retiredObj, retired, rejected,
                 enumerated, seedCalls, world, workers>>

\* on_uevent, lines 84-93
OnUevent ==
  /\ MainLoopDispatches
  /\ pending # << >>
  /\ Handle(Head(pending).action, Head(pending).path, TRUE)
  /\ pending' = Tail(pending)
  /\ UNCHANGED <<phase, daemon, devices, emitted, enumerated, world, workers>>

Next ==
  \/ \E d \in DaemonArgs : ProviderNew(d)
  \/ EnumStep
  \/ ConstructedReturn
  \/ KernelUevent
  \/ OnUevent

Spec == Init /\ [][Next]_vars

\* ------------------------------------------------- the devices and the feed
\* In this specification the notifications come from devices being plugged
\* in and out; the feed may repeat the notification it queued last and may
\* swap the two oldest queued notifications.
Listed(d) == {d[i] : i \in DOMAIN d}

InitWorld ==
  /\ InitProvider
  /\ attached \in SUBSET Paths

\* udisks_linux_provider_new with a daemon; the query lists what is attached
ConstructedWorld ==
  /\ phase = "unconstructed"
  /\ phase' = "enumerating"
  /\ daemon' = "daemon"
  /\ \E d \in QueryBySubsystem :
       Listed(d) = attached /\ devices' = d /\ enumerated' = d
  /\ UNCHANGED <<pending, emitted, sysfs_to_block, exported, blocks, calls,
                 last, nhandled, since, pat, retiredObj, retired, rejected, seedCalls,
                 world, workers>>

\* the client queues one more uevent
Queue(action, path) ==
  /\ ClientExists
  /\ emitted < MaxLive
  /\ Len(pending) < MaxPending + 1
  /\ pending' = Append(pending, [action |-> action, path |-> path])
  /\ emitted' = emitted + 1
  /\ UNCHANGED <<phase, daemon, devices, sysfs_to_block, exported, blocks,
                 calls, last, nhandled, since, pat, retiredObj, retired, rejected,
                 enumerated, seedCalls, feedOk, workers>>

Attach ==
  \E p \in Paths \ attached :
    /\ attached' = attached \cup {p}
    /\ Queue("add", p)
    /\ UNCHANGED faulty

Detach ==
  \E p \in attached :
    /\ attached' = attached \ {p}
    /\ Queue("remove", p)
    /\ UNCHANGED faulty

MediaChange ==
  \E p \in attached :
    /\ Queue("change", p)
    /\ UNCHANGED <<attached, faulty>>

\* the feed delivers the notification it queued last a second time
FeedDuplicates ==
  /\ pending # << >>
  /\ Queue(pending[Len(pending)].action, pending[Len(pending)].path)
  /\ UNCHANGED <<attached, faulty>>

\* the feed delivers the two oldest queued notifications in the other order
FeedReorders ==
  /\ Len(pending) >= 2
  /\ pending[1] # pending[2]
  /\ pending' = << pending[2], pending[1] >> \o SubSeq(pending, 3, Len(pending))
  /\ faulty' = (faulty \/ pending[1].path = pending[2].path)
  /\ UNCHANGED <<phase, daemon, devices, emitted, sysfs_to_block, exported,
                 blocks, calls, last, nhandled, since, pat, retiredObj,
                 retired, rejected, enumerated, seedCalls, attached, feedOk, workers>>

NextWorld ==
  \/ ConstructedWorld
  \/ EnumStep
  \/ ConstructedReturn
  \/ Attach
  \/ Detach
  \/ MediaChange
  \/ FeedDuplicates
  \/ FeedReorders
  \/ OnUevent

SpecWorld == InitWorld /\ [][NextWorld]_vars

\* --------------------------------------------------- a query that fails
\* g_udev_client_query_by_subsystem has no error result: when the
\* enumeration cannot be made it returns NULL, the empty list.  constructed()
\* is void and goes on as for a machine without block devices.
ConstructedFeedFails ==
  /\ phase = "unconstructed"
  /\ phase' = "enumerating"
  /\ daemon' = "daemon"
  /\ devices' = << >>
  /\ enumerated' = << >>
  /\ feedOk' = FALSE
  /\ UNCHANGED <<pending, emitted, sysfs_to_block, exported, blocks, calls,
                 last, nhandled, since, pat, retiredObj, retired, rejected, seedCalls,
                 attached, faulty, workers>>

NextFeedFail ==
  \/ ConstructedFeedFails
  \/ NextWorld

SpecFeedFail == InitWorld /\ [][NextFeedFail]_vars

\* ------------------------------------- the registry and the provider's end
\* on_uevent called by the main loop with one notification
Deliver ==
  /\ MainLoopDispatches
  /\ emitted < MaxLive
  /\ \E a \in {"add", "change", "remove"}, p \in Paths : Handle(a, p, TRUE)
  /\ emitted' = emitted + 1
  /\ UNCHANGED <<phase, daemon, devices, pending, enumerated, world, workers>>

\* an object of the provider is retracted from the object manager by
\* someone else; the map is not told
RegistryLoses ==
  /\ phase = "running"
  /\ ~faulty
  /\ \E p \in Keys(exported) : exported' = Unexport(exported, p)
  /\ faulty' = TRUE
  /\ UNCHANGED <<phase, daemon, devices, pending, emitted, sysfs_to_block,
                 blocks, calls, last, nhandled, since, pat, retiredObj,
                 retired, rejected, enumerated, seedCalls, attached, feedOk,
                 workers>>

NextReject ==
  \/ ProviderNew("daemon")
  \/ EnumStep
  \/ ConstructedReturn
  \/ Deliver
  \/ RegistryLoses

SpecReject == Init /\ [][NextReject]_vars

\* udisks_linux_provider_finalize, lines 67-77: the table is unreferenced,
\* which unreferences every block (the destroy notify of line 113 is
\* g_object_unref), and the client is unreferenced; the object manager is
\* not called
Finalize ==
  /\ phase = "running"
  /\ phase' = "finalized"
  /\ sysfs_to_block' = [p \in Paths |-> NULL]
  /\ pending' = << >>
  /\ UNCHANGED <<daemon, devices, emitted, exported, blocks, calls, last,
                 nhandled, since, pat, retiredObj, retired, rejected,
                 enumerated, seedCalls, world, workers>>

NextLife ==
  \/ ProviderNew("daemon")
  \/ EnumStep
  \/ ConstructedReturn
  \/ Deliver
  \/ Finalize

SpecLife == Init /\ [][NextLife]_vars

\* -------------------------------------------- handle_uevent, call by call
\* The same function with one step per collaborator call, run by workers
\* that take notifications directly.  The main loop of the daemon is one
\* worker at a time (overlap stays FALSE); two workers inside the function
\* together show what the function itself guarantees without that.
stepFrame == <<phase, daemon, devices, pending, enumerated, seedCalls, calls,
               last, pat, retiredObj, retired, rejected, world>>

\* lines 185-188 and 197-198: where the lookup's result leads
AfterLookup(action, block) ==
  IF IsRemove(action)
    THEN (IF block # NULL THEN "unexport" ELSE "idle")
    ELSE (IF block # NULL THEN "uevent" ELSE "new")

\* mutant: the new object is inserted first and exported afterwards
AfterStepInsertFirst(pc) ==
  CASE pc = "unexport" -> "remove"
    [] pc = "remove"   -> "idle"
    [] pc = "uevent"   -> "idle"
    [] pc = "new"      -> "insert"
    [] pc = "insert"   -> "export"
    [] pc = "export"   -> "idle"

\* the statement after each call: lines 190-192, 200, 204-207
AfterStep(pc) ==
  CASE pc = "unexport" -> "remove"
    [] pc = "remove"   -> "idle"
    [] pc = "uevent"   -> "idle"
    [] pc = "new"      -> "export"
    [] pc = "export"   -> "insert"
    [] pc = "insert"   -> "idle"

Goto(w, pc) == wpc' = [wpc EXCEPT ![w] = pc]

\* lines 173-184: a worker enters the function with a notification
Enter(w) ==
  /\ phase = "running"
  /\ wpc[w] = "idle"
  /\ emitted < MaxLive
  /\ \E a \in {"add", "remove"}, p \in Paths :
       /\ wev' = [wev EXCEPT ![w] = [action |-> a, path |-> p]]
       /\ since' = [since EXCEPT ![p] = SinceAfter(@, a, << >>)]
  /\ Goto(w, "lookup")
  /\ wblk' = [wblk EXCEPT ![w] = NULL]
  /\ overlap' = (overlap \/ \E v \in Workers \ {w} : wpc[v] # "idle")
  /\ emitted' = emitted + 1
  /\ nhandled' = nhandled + 1
  /\ UNCHANGED <<sysfs_to_block, exported, blocks, stepFrame>>

\* lines 187 and 197: g_hash_table_lookup
LookupStep(w) ==
  /\ wpc[w] = "lookup"
  /\ wblk' = [wblk EXCEPT ![w] = Lookup(sysfs_to_block, wev[w].path)]
  /\ Goto(w, AfterLookup(wev[w].action, Lookup(sysfs_to_block, wev[w].path)))
  /\ UNCHANGED <<wev, overlap, emitted, nhandled, since, sysfs_to_block,
                 exported, blocks, stepFrame>>

\* lines 190-191: g_dbus_object_manager_unexport
UnexportStep(w) ==
  /\ wpc[w] = "unexport"
  /\ exported' = Unexport(exported, ObjectPath(blocks, wblk[w]))
  /\ Goto(w, AfterStep("unexport"))
  /\ UNCHANGED <<wev, wblk, overlap, emitted, nhandled, since, sysfs_to_block,
                 blocks, stepFrame>>

\* line 192: g_hash_table_remove
RemoveStep(w) ==
  /\ wpc[w] = "remove"
  /\ sysfs_to_block' = HashRemove(sysfs_to_block, wev[w].path)
  /\ Goto(w, AfterStep("remove"))
  /\ UNCHANGED <<wev, wblk, overlap, emitted, nhandled, since, exported,
                 blocks, stepFrame>>

\* line 200: udisks_linux_block_uevent
UeventStep(w) ==
  /\ wpc[w] = "uevent"
  /\ Goto(w, AfterStep("uevent"))
  /\ UNCHANGED <<wev, wblk, overlap, emitted, nhandled, since, sysfs_to_block,
                 exported, blocks, stepFrame>>

\* line 204: udisks_linux_block_new
NewStep(w) ==
  /\ wpc[w] = "new"
  /\ blocks' = BlockNew(blocks, wev[w].path)
  /\ wblk' = [wblk EXCEPT ![w] = Len(blocks) + 1]
  /\ since' = [since EXCEPT ![wev[w].path].news = @ + 1]
  /\ Goto(w, AfterStep("new"))
  /\ UNCHANGED <<wev, overlap, emitted, nhandled, sysfs_to_block, exported,
                 stepFrame>>

\* lines 205-206: g_dbus_object_manager_export
ExportStep(w) ==
  /\ wpc[w] = "export"
  /\ exported' = Export(exported, blocks, wblk[w])
  /\ since' = [since EXCEPT ![wev[w].path].exports = @ + 1]
  /\ Goto(w, AfterStep("export"))
  /\ UNCHANGED <<wev, wblk, overlap, emitted, nhandled, sysfs_to_block,
                 blocks, stepFrame>>

\* line 207: g_hash_table_insert
InsertStep(w) ==
  /\ wpc[w] = "insert"
  /\ sysfs_to_block' = HashInsert(sysfs_to_block, wev[w].path, wblk[w])
  /\ Goto(w, AfterStep("insert"))
  /\ UNCHANGED <<wev, wblk, overlap, emitted, nhandled, since, exported,
                 blocks, stepFrame>>

NextSteps ==
  \/ ProviderNew("daemon")
  \/ EnumStep
  \/ ConstructedReturn
  \/ \E w \in Workers : Enter(w)
  \/ \E w \in Workers : LookupStep(w)
  \/ \E w \in Workers : UnexportStep(w)
  \/ \E w \in Workers : RemoveStep(w)
  \/ \E w \in Workers : UeventStep(w)
  \/ \E w \in Workers : NewStep(w)
  \/ \E w \in Workers : ExportStep(w)
  \/ \E w \in Workers : InsertStep(w)

SpecSteps == Init /\ [][NextSteps]_vars

\* ------------------------------------------------------------------ claims
Range(q) == {q[i] : i \in DOMAIN q}

\* the step is one invocation of handle_uevent
Handled == nhandled' = nhandled + 1

CountFor(cs, op, X) ==
  Cardinality({i \in 1..Len(cs) : cs[i].op = op /\ cs[i].path = X})

NewCalls(X, new) ==
  << Call("new", X, new, "-"), Call("export", X, new, "-"),
     Call("insert", X, new, "-") >>

\* C1: after every handled notification the set of sysfs paths that are
\* keys of sysfs_to_block equals the set of identities exported on the
\* object manager.
MapMatchesRegistry == Keys(sysfs_to_block) = Keys(exported)

MapMatchesRegistryWitness ==
  /\ last.live /\ last.action = "remove" /\ calls # << >>
  /\ Keys(sysfs_to_block) # {}
  /\ Keys(sysfs_to_block) = Keys(exported)

\* C2: between two Removes of X (or from the start to the first Remove) at
\* most one object is constructed and at most one export is issued for X;
\* after two Adds of X with no Remove in between X has its entry, exactly
\* one construct and one export were made, and the second Add made exactly
\* one update call.
AddsCollapse ==
  \A X \in Paths :
    /\ since[X].news <= 1
    /\ since[X].exports <= 1
    /\ since[X].adds >= 2 =>
         /\ sysfs_to_block[X] # NULL
         /\ since[X].news = 1
         /\ since[X].exports = 1
    /\ (since[X].adds >= 2 /\ last.path = X /\ last.action = "add") =>
         calls = << Call("uevent", X, sysfs_to_block[X], "add") >>

AddsCollapseWitness ==
  \E X \in Paths :
    /\ since[X].adds = 2 /\ last.path = X /\ last.action = "add"
    /\ since[X].news = 1 /\ CountOp(calls, "uevent") = 1

\* C3: an Add or Change for an identity X that is in the map makes exactly
\* one update call on the existing object, with the notification's action
\* and device, and no construct, export or unexport; the handle stored for
\* X is unchanged, and X still has exactly one export to its name.
UpdateInPlace ==
  [][ \A X \in Paths :
        ( /\ Handled
          /\ last'.path = X
          /\ last'.action \in {"add", "change"}
          /\ sysfs_to_block[X] # NULL )
        => /\ calls' = << Call("uevent", X, sysfs_to_block[X], last'.action) >>
           /\ sysfs_to_block' = sysfs_to_block
           /\ exported' = exported
           /\ blocks' = blocks
           /\ since'[X].exports = 1
           /\ since'[X].news = 1 ]_vars

UpdateInPlaceWitness ==
  \E X \in Paths :
    /\ last.path = X /\ last.action = "change" /\ last.live
    /\ since[X].adds = 1
    /\ calls = << Call("uevent", X, sysfs_to_block[X], "change") >>
    /\ since[X].exports = 1

\* C4: a Remove for an identity X that is in the map makes exactly one
\* unexport call, for X's object, before the entry is removed from the map;
\* afterwards X is in neither the map nor the registry.
RemoveRetracts ==
  [][ \A X \in Paths :
        ( /\ Handled
          /\ last'.path = X
          /\ last'.action = "remove"
          /\ sysfs_to_block[X] # NULL )
        => /\ calls' = << Call("unexport", X, sysfs_to_block[X], "-"),
                          Call("remove", X, sysfs_to_block[X], "-") >>
           /\ exported[X] = sysfs_to_block[X]
           /\ sysfs_to_block'[X] = NULL
           /\ exported'[X] = NULL ]_vars

RemoveRetractsWitness ==
  \E X \in Paths :
    /\ last.path = X /\ last.action = "remove"
    /\ Len(calls) = 2 /\ calls[1].op = "unexport" /\ calls[2].op = "remove"
    /\ sysfs_to_block[X] = NULL /\ exported[X] = NULL

\* C5: a Remove for an identity that is not in the map changes nothing: the
\* map and the registry are as before, no call is made and no warning is
\* raised.
StrayRemoveNoop ==
  [][ \A Y \in Paths :
        ( /\ Handled
          /\ last'.path = Y
          /\ last'.action = "remove"
          /\ sysfs_to_block[Y] = NULL )
        => /\ calls' = << >>
           /\ sysfs_to_block' = sysfs_to_block
           /\ exported' = exported
           /\ blocks' = blocks ]_vars

StrayRemoveNoopWitness ==
  \E Y \in Paths :
    /\ last.path = Y /\ last.action = "remove" /\ calls = << >>
    /\ retiredObj[Y] = NULL
    /\ \E h \in retired : blocks[h] = Y

\* C6: in Add(X), Remove(X), Add(X) the second Add constructs, exports and
\* inserts a new object, distinct from the one the Remove retired, and no
\* update call ever goes to a retired object.
ReAddConstructs ==
  /\ \A X \in Paths :
       (last.path = X /\ pat[X] = 3) =>
         LET new == sysfs_to_block[X] IN
           /\ retiredObj[X] # NULL
           /\ new # NULL
           /\ new # retiredObj[X]
           /\ new \notin retired
           /\ calls = NewCalls(X, new)
           /\ exported[X] = new
  /\ \A i \in 1..Len(calls) :
       calls[i].op = "uevent" => calls[i].obj \notin retired

ReAddConstructsWitness ==
  \E X \in Paths :
    /\ last.path = X /\ pat[X] = 3 /\ last.live
    /\ retiredObj[X] \in retired
    /\ CountOp(calls, "new") = 1

\* seeding is over and no live notification has been handled yet
SeedingDone ==
  /\ ClientExists
  /\ devices = << >>
  /\ nhandled = Len(enumerated)

Reorderings(q) ==
  {d \in QueryBySubsystem : Len(d) = Len(q) /\ Range(d) = Range(q)}

EmptyState ==
  [map |-> [p \in Paths |-> NULL], reg |-> [p \in Paths |-> NULL],
   blocks |-> << >>, calls |-> << >>]

\* C7: seeding an empty map from an enumeration makes one construct and one
\* export per enumerated device and no unexport, leaves exactly the
\* enumerated identities as keys, and gives the same keys, the same
\* objects per key and the same exports for every order of the enumeration.
SeedingOnePerDevice ==
  SeedingDone =>
    /\ Keys(sysfs_to_block) = Range(enumerated)
    /\ Keys(exported) = Range(enumerated)
    /\ \A X \in Paths :
         /\ CountFor(seedCalls, "new", X) = (IF X \in Range(enumerated) THEN 1 ELSE 0)
         /\ CountFor(seedCalls, "export", X) = (IF X \in Range(enumerated) THEN 1 ELSE 0)
    /\ CountOp(seedCalls, "unexport") = 0
    /\ \A X \in Range(enumerated) : blocks[sysfs_to_block[X]] = X
    /\ \A d \in Reorderings(enumerated) :
         LET r == Seed(EmptyState, d) IN
           /\ Keys(r.map) = Keys(sysfs_to_block)
           /\ \A X \in Keys(r.map) : r.blocks[r.map[X]] = X
           /\ \A X \in Paths :
                CountFor(r.calls, "export", X) = CountFor(seedCalls, "export", X)

SeedingOnePerDeviceWitness ==
  /\ SeedingDone
  /\ phase = "running"
  /\ Len(enumerated) = NumPaths
  /\ enumerated[1] > enumerated[2]
  /\ CountOp(seedCalls, "export") = NumPaths

\* C8: no live notification is handled before the whole enumeration has
\* been processed: while constructed() runs, every notification handled so
\* far is an enumeration Add.
NoLiveDuringSeeding ==
  phase # "running" =>
    /\ ~last.live
    /\ nhandled = Len(enumerated) - Len(devices)

NoLiveDuringSeedingWitness ==
  /\ phase = "enumerating"
  /\ nhandled >= 1
  /\ devices # << >>
  /\ pending # << >>

\* C9: every action other than "remove" is handled as an Add: an update of
\* the existing object if the identity is present, otherwise construct,
\* export and insert; no object is unexported and no entry removed.
NonRemoveIsAdd ==
  [][ \A X \in Paths :
        ( /\ Handled
          /\ last'.path = X
          /\ last'.action # "remove" )
        => /\ IF sysfs_to_block[X] # NULL
                THEN /\ calls' = << Call("uevent", X, sysfs_to_block[X], last'.action) >>
                     /\ sysfs_to_block' = sysfs_to_block
                     /\ exported' = exported
                     /\ blocks' = blocks
                ELSE /\ calls' = NewCalls(X, Len(blocks) + 1)
                     /\ sysfs_to_block' = [sysfs_to_block EXCEPT ![X] = Len(blocks) + 1]
                     /\ exported' = [exported EXCEPT ![X] = Len(blocks) + 1]
                     /\ blocks' = Append(blocks, X)
           /\ CountOp(calls', "unexport") = 0
           /\ CountOp(calls', "remove") = 0
           /\ Keys(sysfs_to_block) \subseteq Keys(sysfs_to_block') ]_vars

NonRemoveIsAddWitness ==
  \E X, Y \in Paths :
    /\ last.path = X /\ last.action = NoAction /\ last.live
    /\ calls = NewCalls(X, sysfs_to_block[X])
    /\ Y # X /\ sysfs_to_block[Y] # NULL

\* C10: handling a notification for X leaves every other identity as it
\* was: its entry, its object and its export are unchanged and no call is
\* made for it or for its object.
OthersUntouched ==
  [][ \A X \in Paths :
        (Handled /\ last'.path = X)
        => \A Y \in Paths \ {X} :
             /\ sysfs_to_block'[Y] = sysfs_to_block[Y]
             /\ exported'[Y] = exported[Y]
             /\ \A i \in 1..Len(calls') :
                  /\ calls'[i].path # Y
                  /\ calls'[i].obj # NULL => blocks'[calls'[i].obj] # Y ]_vars

OthersUntouchedWitness ==
  \E X, Y \in Paths :
    /\ X # Y
    /\ last.path = X /\ last.live /\ last.action = "remove"
    /\ calls # << >>
    /\ sysfs_to_block[Y] # NULL /\ exported[Y] = sysfs_to_block[Y]

\* C12: udisks_linux_provider_new called with something that is not a
\* daemon returns no provider and has no effect: no client, no subscription,
\* no enumeration, nothing constructed or exported.
InvalidDaemonNoEffect ==
  daemon \in {"null", "other"} =>
    /\ phase = "invalid"
    /\ devices = << >> /\ enumerated = << >>
    /\ pending = << >> /\ emitted = 0
    /\ Keys(sysfs_to_block) = {} /\ Keys(exported) = {}
    /\ blocks = << >> /\ calls = << >> /\ nhandled = 0

InvalidDaemonNoEffectWitness ==
  /\ daemon = "null"
  /\ phase = "invalid"
  /\ blocks = << >>

\* C18: after every handled notification the handle stored in the map for
\* X is the instance exported for X, and an instance retired by a Remove is
\* neither exported, nor in the map, nor the target of an update call.
MapHoldsExportedInstance ==
  /\ \A X \in Keys(sysfs_to_block) :
       /\ exported[X] = sysfs_to_block[X]
       /\ blocks[sysfs_to_block[X]] = X
  /\ \A h \in retired :
       \A p \in Paths : exported[p] # h /\ sysfs_to_block[p] # h
  /\ \A i \in 1..Len(calls) :
       calls[i].op = "uevent" =>
         /\ calls[i].obj \notin retired
         /\ calls[i].obj = sysfs_to_block[calls[i].path]

MapHoldsExportedInstanceWitness ==
  \E X \in Paths :
    /\ last.path = X /\ last.action = "change" /\ last.live
    /\ CountOp(calls, "uevent") = 1
    /\ \E h \in retired : blocks[h] = X
    /\ exported[X] = sysfs_to_block[X] /\ sysfs_to_block[X] \notin retired

\* every queued notification has been handled
Quiescent == phase = "running" /\ pending = << >>

\* the map and the registry hold exactly the attached devices, each once
MatchesAttached ==
  /\ Keys(sysfs_to_block) = attached
  /\ Keys(exported) = attached
  /\ \A X \in Paths :
       /\ since[X].exports <= 1
       /\ exported[X] # NULL => blocks[exported[X]] = X

\* C11 as stated: whatever the feed duplicates or reorders, once every
\* notification has been handled the map and the registry hold exactly the
\* attached devices.
ConvergesAlways == Quiescent => MatchesAttached

\* C11, amended: when every device's notifications are delivered in causal
\* order (a notification may be repeated right after itself), once every
\* notification has been handled the map and the registry hold exactly the
\* attached devices, each once.
ConvergesInOrder == (Quiescent /\ ~faulty) => MatchesAttached

ConvergesInOrderWitness ==
  /\ Quiescent /\ ~faulty
  /\ emitted >= 2
  /\ last.live
  /\ attached # {}
  /\ \E h \in retired : blocks[h] \notin attached
  /\ MatchesAttached

\* C13: when the enumeration cannot be queried, construction fails and the
\* caller never holds a constructed provider whose map is empty or partial
\* because of it.
FeedFailureSurfaces == ~feedOk => phase # "running"

\* no worker is inside handle_uevent
AllIdle == \A w \in Workers : wpc[w] = "idle"

\* C14 as stated: while a notification for an absent X is handled, X's new
\* object is never exported while X is still absent from the map.
InsertedBeforeExported ==
  \A w \in Workers :
    wblk[w] # NULL =>
      ~ ( /\ wpc[w] \in {"export", "insert"}
          /\ exported[wev[w].path] = wblk[w]
          /\ sysfs_to_block[wev[w].path] = NULL )

\* C14, amended: the new object is exported first and inserted next: between
\* the two calls it is exported while X is absent from the map, and when the
\* handler has returned X is in the map with the exported object.
ExportedThenInserted ==
  ~overlap =>
    /\ \A w \in Workers :
         /\ wpc[w] = "export" =>
              /\ exported[wev[w].path] = NULL
              /\ sysfs_to_block[wev[w].path] = NULL
         /\ wpc[w] = "insert" =>
              /\ exported[wev[w].path] = wblk[w]
              /\ sysfs_to_block[wev[w].path] = NULL
    /\ AllIdle => \A X \in Paths : sysfs_to_block[X] = exported[X]

ExportedThenInsertedWitness ==
  \E w \in Workers :
    /\ ~overlap
    /\ wpc[w] = "insert"
    /\ wev[w].action = "add"
    /\ exported[wev[w].path] = wblk[w]
    /\ sysfs_to_block[wev[w].path] = NULL
    /\ Keys(sysfs_to_block) # {}

\* what two Adds of one identity must come to
OneObjectFor(X) ==
  /\ since[X].news <= 1
  /\ since[X].exports <= 1
  /\ AllIdle => /\ sysfs_to_block[X] # NULL
                /\ exported[X] = sysfs_to_block[X]

BothAdd(X) == \A w \in Workers : wev[w] = [action |-> "add", path |-> X]

\* C15 as stated: when two workers handle an Add for the same X with their
\* steps interleaved, at most one object is constructed and exported for X
\* and the map ends with the exported object.
OneObjectInterleaved == \A X \in Paths : BothAdd(X) => OneObjectFor(X)

\* C15, amended: when the two Adds are handled one after the other, as the
\* main loop does, at most one object is constructed and exported for X and
\* the map ends with the exported object.
OneObjectOneAtATime ==
  \A X \in Paths : (BothAdd(X) /\ ~overlap) => OneObjectFor(X)

OneObjectOneAtATimeWitness ==
  \E X \in Paths :
    /\ BothAdd(X) /\ ~overlap /\ AllIdle
    /\ X \notin Listed(enumerated)
    /\ since[X].adds = 2 /\ since[X].news = 1 /\ since[X].exports = 1
    /\ exported[X] = sysfs_to_block[X]

\* C16: when the registry rejects the unexport made for Remove(X) of a
\* present X, the handler still removes X's entry and returns without a
\* warning, and an Add(X) that follows constructs, exports and inserts a new
\* object.
RejectedUnexportStillRemoves ==
  \A X \in rejected :
    /\ (last.path = X /\ last.action = "remove") =>
         /\ sysfs_to_block[X] = NULL
         /\ exported[X] = NULL
         /\ calls = << Call("unexport", X, retiredObj[X], "-"),
                       Call("remove", X, retiredObj[X], "-") >>
    /\ (last.path = X /\ pat[X] = 3) =>
         /\ sysfs_to_block[X] \notin {NULL, retiredObj[X]}
         /\ calls = NewCalls(X, sysfs_to_block[X])
         /\ exported[X] = sysfs_to_block[X]

RejectedUnexportStillRemovesWitness ==
  \E X \in rejected :
    /\ faulty
    /\ last.path = X /\ pat[X] = 3
    /\ calls = NewCalls(X, sysfs_to_block[X])
    /\ retiredObj[X] \in retired

\* C17: every entry that leaves the map has its object unexported: once the
\* provider is finalized nothing it exported is still exported.
TeardownUnexports ==
  phase = "finalized" => Keys(exported) = {}

====
